---- MODULE Spec2Model ----
(***************************************************************************)
(* c-chess-cli: the game driver (game.c) and the UCI engine driver         *)
(* (engine.c), with the two engines as scripted processes behind pipes.    *)
(*                                                                         *)
(* A line of text is the sequence of its space-separated tokens, so that   *)
(* str_tok, strcmp and strncmp are modelled by what they do on tokens.     *)
(* The chess module (position.c, gen.c) is not part of the sources at      *)
(* hand: it is modelled by a small board game that keeps the attributes    *)
(* the drivers rely on (turn, rule50, key, checkers, lastMove, legal move  *)
(* list, insufficient material, FEN and LAN conversion).                   *)
(*                                                                         *)
(* game_play (game.c:161) calls engine_bestmove with the engine and the    *)
(* score only, while engine_bestmove (engine.c:141) also takes a time      *)
(* budget and the string to fill, and returns whether it found a move.     *)
(* The budget is therefore an input of each request, the string is empty   *)
(* before the call, and game_play does not look at the value returned.     *)
(*                                                                         *)
(* Three kinds of scripted engines play the games: free ones (info lines,  *)
(* any bestmove line, a clock that may advance at every line), quiet ones  *)
(* (a legal or illegal bestmove at once, long games, with or without a log *)
(* sink) and stalling ones (info lines for as long as they search). The    *)
(* handshake of engine_new is a specification of its own.                  *)
(***************************************************************************)
EXTENDS Integers, Sequences, FiniteSets, TLC

\* ------------------------------------------------------------- bounds
\* Plies the engines are asked to move in a game played with free scripts.
MaxPly == 3
\* Plies the engines are asked to move in a game played with quiet scripts.
MaxPlyQuiet == 8
\* Largest time budget (clock ticks) handed to engine_bestmove.
MaxTime == 1
\* Lines an engine may have in its output pipe while searching.
MaxQueue == 1
\* Pawn pushes available in the board game.
MaxPawn == 1
\* Largest drawCount and resignCount option.
MaxDrawCount == 1
MaxResignCount == 2
\* Width of int in bits (two's complement).
IntBits == 12
\* Lines an engine prints before uciok in the handshake of engine_new.
MaxHandshake == 3

\* ------------------------------------------------------------- integers
INT_MAX == 2^(IntBits - 1) - 1
INT_MIN == -(2^(IntBits - 1))

\* abs() of <stdlib.h>. abs(INT_MIN) overflows, which is undefined: the build
\* either wraps to INT_MIN or treats the comparison it feeds as out of range.
abs(x) == IF x = INT_MIN THEN {INT_MIN, INT_MAX} ELSE IF x < 0 THEN {-x} ELSE {x}

\* atoi() on the number tokens the scripted engines use; 0 when no number.
atoi(token) ==
    CASE token = "0" -> 0
      [] token = "1" -> 1
      [] token = "-1" -> -1
      [] token = "-600" -> -600
      [] OTHER -> 0

max(a, b) == IF a > b THEN a ELSE b

\* ------------------------------------------------------------- chess module
WHITE == 0
BLACK == 1
NoMove == "none"

\* The repetition key: equal exactly for positions equal for repetition purposes.
pos_key(p) == <<p.wk, p.bk, p.pawns, p.bare, p.dead, p.turn>>

\* pos_set(): the position of a FEN.
pos_set(fen) ==
    [wk |-> fen.wk, bk |-> fen.bk, pawns |-> fen.pawns, bare |-> fen.bare,
     dead |-> fen.dead, turn |-> fen.turn, rule50 |-> fen.rule50,
     checkers |-> (fen.dead = "mate"), lastMove |-> NoMove,
     key |-> pos_key(fen)]

\* pos_get(): the FEN of a position; the last move is not part of it.
pos_get(p) ==
    [wk |-> p.wk, bk |-> p.bk, pawns |-> p.pawns, bare |-> p.bare,
     dead |-> p.dead, turn |-> p.turn, rule50 |-> p.rule50]

\* gen_all_moves(): the legal moves of a position.
gen_all_moves(p) ==
    IF p.dead # "" THEN {}
    ELSE {"Quiet", "Mate", "Stale"}
         \cup (IF p.pawns < MaxPawn THEN {"Push"} ELSE {})
         \cup (IF ~p.bare THEN {"Capture"} ELSE {})

pos_insufficient_material(p) == p.bare

\* pos_move(): the position after a move. Quiet moves shuttle the mover's king,
\* so a position comes back after 4 plies at the earliest.
pos_move(p, m) ==
    LET q == [p EXCEPT
                !.turn = 1 - p.turn,
                !.wk = IF m = "Quiet" /\ p.turn = WHITE THEN 1 - p.wk ELSE p.wk,
                !.bk = IF m = "Quiet" /\ p.turn = BLACK THEN 1 - p.bk ELSE p.bk,
                !.pawns = IF m = "Push" THEN p.pawns + 1 ELSE p.pawns,
                !.bare = IF m = "Capture" THEN TRUE ELSE p.bare,
                !.dead = IF m = "Mate" THEN "mate"
                         ELSE IF m = "Stale" THEN "stale" ELSE p.dead,
                !.rule50 = IF m \in {"Push", "Capture"} THEN 0 ELSE p.rule50 + 1,
                !.lastMove = m]
    IN  [q EXCEPT !.checkers = (q.dead = "mate"), !.key = pos_key(q)]

\* pos_move_to_lan(): the quiet move is written as castling is, king to g1 in
\* standard chess and king to the rook's square in Chess960.
pos_move_to_lan(p, m, chess960) ==
    CASE m = "Quiet" -> IF chess960 THEN "e1h1" ELSE "e1g1"
      [] m = "Push" -> "e2e4"
      [] m = "Capture" -> "d1d8"
      [] m = "Mate" -> "d8h4"
      [] m = "Stale" -> "f7f6"
      [] OTHER -> "0000"

\* pos_lan_to_move(): NoMove when the string is no move of the notation.
pos_lan_to_move(p, lan, chess960) ==
    CASE lan = "e1g1" -> IF chess960 THEN NoMove ELSE "Quiet"
      [] lan = "e1h1" -> IF chess960 THEN "Quiet" ELSE NoMove
      [] lan = "e2e4" -> "Push"
      [] lan = "d1d8" -> "Capture"
      [] lan = "d8h4" -> "Mate"
      [] lan = "f7f6" -> "Stale"
      [] OTHER -> NoMove

\* ------------------------------------------------------------- game.c
\* The position at a ply: g->pos[ply].
Pos(g, ply) == g.pos[ply + 1]

\* ply0 of uci_position_command: where rule50 was last reset.
\* (mut_ply0: the same, one ply too early.)
mut_ply0(g) == max(g.ply - Pos(g, g.ply).rule50 - 1, 0)
ply0(g) == max(g.ply - Pos(g, g.ply).rule50, 0)

\* The moves of the command: the LAN of each move from ply0 + 1 to ply.
position_moves(g, chess960) ==
    [i \in 1..(g.ply - ply0(g)) |->
        pos_move_to_lan(Pos(g, ply0(g) + i - 1), Pos(g, ply0(g) + i).lastMove, chess960)]

uci_position_command(g, chess960) ==
    [fen |-> pos_get(Pos(g, ply0(g))), moves |-> position_moves(g, chess960)]

\* The scan for 3 repetitions of game_result: i = 4, 6, ... while i <= rule50 and
\* i <= ply; TRUE as soon as the count of repetitions reaches 3.
\* (mut_scan: the scan stops at the second occurrence.)
RECURSIVE mut_scan(_, _, _)
mut_scan(g, i, repetitions) ==
    IF i <= Pos(g, g.ply).rule50 /\ i <= g.ply THEN
        IF Pos(g, g.ply - i).key = Pos(g, g.ply).key THEN
            (repetitions + 1 >= 2) \/ mut_scan(g, i + 2, repetitions + 1)
        ELSE mut_scan(g, i + 2, repetitions)
    ELSE FALSE
RECURSIVE scan(_, _, _)
scan(g, i, repetitions) ==
    IF i <= Pos(g, g.ply).rule50 /\ i <= g.ply THEN
        IF Pos(g, g.ply - i).key = Pos(g, g.ply).key THEN
            (repetitions + 1 >= 3) \/ scan(g, i + 2, repetitions + 1)
        ELSE scan(g, i + 2, repetitions)
    ELSE FALSE

\* game_result. (mut_game_result: the 50 move rule tested before the move list.)
mut_game_result(g) ==
    LET pos == Pos(g, g.ply) IN
    IF pos.rule50 >= 100 THEN "FIFTY_MOVES"
    ELSE IF gen_all_moves(pos) = {} THEN
        IF pos.checkers THEN "CHECKMATE" ELSE "STALEMATE"
    ELSE IF pos_insufficient_material(pos) THEN "INSUFFICIENT_MATERIAL"
    ELSE IF scan(g, 4, 1) THEN "THREEFOLD"
    ELSE "NONE"
game_result(g) ==
    LET pos == Pos(g, g.ply) IN
    IF gen_all_moves(pos) = {} THEN
        IF pos.checkers THEN "CHECKMATE" ELSE "STALEMATE"
    ELSE IF pos.rule50 >= 100 THEN "FIFTY_MOVES"
    ELSE IF pos_insufficient_material(pos) THEN "INSUFFICIENT_MATERIAL"
    ELSE IF scan(g, 4, 1) THEN "THREEFOLD"
    ELSE "NONE"

\* illegal_move. (mut_illegal_move: only an unparsed move counts as illegal.)
mut_illegal_move(move, moves) == move = NoMove
illegal_move(move, moves) == move \notin moves

\* game_decode_result: the wire result and the reason of a result tag; asserted
\* when the tag reaches assert(false).
LoserIsSideToMove(g) == IF Pos(g, g.ply).turn = WHITE THEN "0-1" ELSE "1-0"

game_decode_result(g) ==
    CASE g.result = "NONE" ->
            [result |-> "*", reason |-> "unterminated", asserted |-> FALSE]
      [] g.result = "CHECKMATE" ->
            [result |-> LoserIsSideToMove(g), reason |-> "checkmate", asserted |-> FALSE]
      [] g.result = "STALEMATE" ->
            [result |-> "1/2-1/2", reason |-> "stalemate", asserted |-> FALSE]
      [] g.result = "THREEFOLD" ->
            [result |-> "1/2-1/2", reason |-> "3 repetitions", asserted |-> FALSE]
      [] g.result = "FIFTY_MOVES" ->
            [result |-> "1/2-1/2", reason |-> "50 move rule", asserted |-> FALSE]
      [] g.result = "INSUFFICIENT_MATERIAL" ->
            [result |-> "1/2-1/2", reason |-> "insufficient material", asserted |-> FALSE]
      [] g.result = "ILLEGAL_MOVE" ->
            [result |-> LoserIsSideToMove(g), reason |-> "illegal move", asserted |-> FALSE]
      [] g.result = "DRAW_ADJUDICATION" ->
            [result |-> "1/2-1/2", reason |-> "draw by adjudication", asserted |-> FALSE]
      [] g.result = "RESIGN" ->
            [result |-> LoserIsSideToMove(g),
             reason |-> IF Pos(g, g.ply).turn = WHITE THEN "white resigns"
                        ELSE "black resigns",
             asserted |-> FALSE]
      [] OTHER -> [result |-> "", reason |-> "", asserted |-> TRUE]

\* ------------------------------------------------------------- engine.c
\* The loop condition of engine_bestmove.
bestmove_continues(t, res) == t >= 0 /\ ~res

\* if (!result): the time-out path, which stops the search and drains.
\* (mut_timed_out: the path is never taken.)
mut_timed_out(res) == FALSE
timed_out(res) == ~res

\* strncmp(line, "bestmove ", strlen("bestmove ")) == 0.
\* (mut_drain_done: the drain stops at the first line.)
mut_drain_done(l) == TRUE
drain_done(l) == Len(l) >= 2 /\ l[1] = "bestmove"

\* The index of the token "score" of an info line, or 0.
score_index(l) ==
    IF \E i \in 2..Len(l) : l[i] = "score"
    THEN CHOOSE i \in 2..Len(l) : l[i] = "score" /\ \A j \in 2..(i - 1) : l[j] # "score"
    ELSE 0

\* The score after a line has been parsed by the loop of engine_bestmove. The
\* scripted engines print no score token other than cp and mate, and a number
\* after each: die() of line 166 is not reached.
parse_score(l, sc) ==
    IF Len(l) >= 1 /\ l[1] = "info" /\ score_index(l) > 0
       /\ Len(l) >= score_index(l) + 2
    THEN LET k == score_index(l) IN
         IF l[k + 1] = "cp" THEN atoi(l[k + 2])
         ELSE IF l[k + 1] = "mate"
              THEN (IF atoi(l[k + 2]) < 0 THEN INT_MIN ELSE INT_MAX)
              ELSE sc
    ELSE sc

\* Whether the line is a bestmove line carrying a move token.
is_bestmove(l) == Len(l) >= 2 /\ l[1] = "bestmove"

\* ------------------------------------------------------------- state
VARIABLES
    g,            \* Game: pos (positions since game start), ply, result
    go,           \* g->go, the game options
    pc,           \* where game_play (and the engine_bestmove it calls) stands
    played,       \* game_play: the move to apply at the next iteration
    drawPlyCount, \* game_play: the draw adjudication counter
    resignCount,  \* game_play: the resign counters of first and second
    posCmd,       \* game_play: the position command last built
    moves,        \* game_play: the legal moves of the current position
    score,        \* engine_bestmove: *score
    timeLeft,     \* engine_bestmove: *timeLeft
    result,       \* engine_bestmove: result, the value returned
    line,         \* engine_bestmove: the line last read
    best,         \* engine_bestmove: *best
    searching,    \* per engine: a search is running
    outq,         \* per engine: the lines in the pipe from the engine
    script,       \* how the scripted engines behave in this game
    drawRun,      \* history: the latest consecutive plies with |score| <= drawScore
    resignRun,    \* history, per engine: its latest consecutive own plies with
                  \* score <= -resignScore
    pending,      \* history, per engine: go lines written and not yet answered
    stops,        \* history: stop lines written by the current engine_bestmove
    drained,      \* history: lines read by the drain of the current engine_bestmove
    timedOut,     \* history: a request of this game has timed out
    decoded,      \* the value of game_decode_result, once called
    engines,      \* the two Engine objects: name, and whether a log sink is set
    args,         \* engine_new: its arguments cmd, name and uciOptions
    hs,           \* history of the handshake of engine_new: lines printed by the
                  \* engine, and the remainders of the id name lines read
    io            \* the log (file and buffer of the C library), and history: the
                  \* lines exchanged, the commands sent to and the last line
                  \* exchanged with each engine

vars == <<g, go, pc, played, drawPlyCount, resignCount, posCmd, moves, score,
          timeLeft, result, line, best, searching, outq, script, drawRun, resignRun,
          pending,
          stops, drained, timedOut, decoded, engines, args, hs, io>>

gameVars == <<g, go, played, drawPlyCount, resignCount, posCmd, moves, drawRun,
              resignRun>>
callVars == <<score, timeLeft, result, line, best, stops, drained>>
envVars == <<script, engines, args, hs>>

\* ------------------------------------------------------------- inputs
Fen(turn, rule50, bare, dead) ==
    [wk |-> 0, bk |-> 0, pawns |-> 0, bare |-> bare, dead |-> dead,
     turn |-> turn, rule50 |-> rule50]

\* Openings of games played with free scripts: fresh positions, and positions
\* that are over before the first move.
Openings ==
    {Fen(WHITE, 0, FALSE, ""), Fen(BLACK, 0, FALSE, "")}
    \cup {Fen(WHITE, 100, TRUE, ""), Fen(BLACK, 100, TRUE, "stale"),
          Fen(WHITE, 100, FALSE, "mate"), Fen(BLACK, 0, TRUE, "")}

\* Openings of games played with quiet scripts.
QuietOpenings == {Fen(t, r, FALSE, "") : t \in {WHITE, BLACK}, r \in {0, 92, 99}}

GameOptions ==
    [chess960 : {FALSE}, drawCount : {0, MaxDrawCount}, drawScore : {10},
     resignCount : {0, MaxResignCount}, resignScore : {500}]
    \cup {[chess960 |-> FALSE, drawCount |-> MaxDrawCount, drawScore |-> 10,
           resignCount |-> MaxResignCount, resignScore |-> 0]}

QuietOptions ==
    [chess960 : BOOLEAN, drawCount : {0}, drawScore : {10},
     resignCount : {0}, resignScore : {500}]

LanTokens(scr) ==
    CASE scr = "free" -> {"e1g1", "e1h1", "e2e4", "d8h4"}
      [] scr = "stall" -> {"e1g1", "e2e4"}
      [] OTHER -> {"e1g1", "e1h1", "e2e4", "d1d8", "d8h4", "f7f6"}

InfoLines ==
    {<<"info", "score", "cp", "0">>,
     <<"info", "depth", "1", "score", "cp", "-600">>,
     <<"info", "score", "mate", "-1">>, <<"info", "score", "mate", "1">>}

\* A stalling engine ends a search on its own with a bestmove line that carries
\* no move, or not at all.
BestmoveLines(scr) ==
    CASE scr = "free" -> {<<"bestmove", t>> : t \in LanTokens(scr)} \cup {<<"bestmove">>}
      [] scr = "stall" -> {<<"bestmove">>}
      [] OTHER -> {<<"bestmove", t>> : t \in LanTokens(scr)}

\* The content of the caller's move string before engine_bestmove fills it: lan
\* of game.c:161 is a new string.
PriorBest == {""}

\* The time budget of a request, and the time left after a line has been read.
\* With stalling engines the clock advances at every line read.
TimeBudgets(scr) == IF scr \in {"free", "stall"} THEN 0..MaxTime ELSE {MaxTime}
ClockAfter(scr, t) ==
    CASE scr = "free" -> (-1)..t
      [] scr = "stall" -> {t - 1}
      [] OTHER -> {t}

PlyCap == IF script \in {"free", "stall"} THEN MaxPly ELSE MaxPlyQuiet

\* game_new
game_new(fen) ==
    [names |-> << <<>>, <<>> >>, pos |-> <<pos_set(fen)>>, ply |-> 0, result |-> "NONE"]

\* Two engines built by engine_new, with the log sink or without.
Engines(sink) ==
    << [id |-> 1, name |-> <<"first">>, log |-> sink],
       [id |-> 2, name |-> <<"second">>, log |-> sink] >>

\* The arguments and the handshake of engine_new, once the engines are built.
NoArgs == [cmd |-> <<>>, name |-> <<>>, log |-> FALSE, uciOptions |-> <<>>]
NoHandshake == [printed |-> 0, ok |-> FALSE, ids |-> <<>>]

\* No line exchanged yet, and an empty log.
NoIO ==
    [log |-> [file |-> <<>>, buf |-> <<>>], wire |-> <<>>,
     sent |-> << <<>>, <<>> >>, last |-> << <<"", <<>>>>, <<"", <<>>>> >>]

Init ==
    /\ script \in {"free", "quiet"}
    /\ go \in (IF script = "free" THEN GameOptions ELSE QuietOptions)
    /\ g \in {game_new(fen) : fen \in (IF script = "free" THEN Openings ELSE QuietOpenings)}
    /\ pc = "start"
    /\ played = NoMove
    /\ drawPlyCount = 0
    /\ resignCount = <<0, 0>>
    /\ posCmd = [fen |-> pos_get(Pos(g, 0)), moves |-> <<>>]
    /\ moves = {}
    /\ score = 0
    /\ timeLeft = 0
    /\ result = FALSE
    /\ line = <<>>
    /\ best = ""
    /\ searching = <<FALSE, FALSE>>
    /\ outq = << <<>>, <<>> >>
    /\ drawRun = 0
    /\ resignRun = <<0, 0>>
    /\ pending = <<0, 0>>
    /\ stops = 0
    /\ drained = 0
    /\ timedOut = FALSE
    /\ decoded = [result |-> "", reason |-> "", asserted |-> FALSE]
    /\ engines \in {Engines(sink) : sink \in (IF script = "quiet" THEN BOOLEAN ELSE {FALSE})}
    /\ args = NoArgs
    /\ hs = NoHandshake
    /\ io = NoIO

\* The engine on move: engines[ply % 2], as an index 1 (first) or 2 (second).
Turn == g.ply % 2
E == Turn + 1

\* engine_writeln seen from the engine: isready is answered by readyok, go starts
\* a search, stop ends a running search with a bestmove line. A stalling engine
\* answers every stop with a bestmove line.
Reply(e, cmd, bm) ==
    CASE cmd = "isready" -> Append(outq[e], <<"readyok">>)
      [] cmd = "stop" /\ (searching[e] \/ script = "stall") -> Append(outq[e], bm)
      [] OTHER -> outq[e]

Searching(e, cmd) ==
    CASE cmd = "go" -> TRUE
      [] cmd = "stop" -> FALSE
      [] OTHER -> searching[e]

\* A go is answered once a line whose first token is bestmove has been read.
Answered(e, l) ==
    IF Len(l) >= 1 /\ l[1] = "bestmove" THEN [pending EXCEPT ![e] = 0] ELSE pending

\* ------------------------------------------------------------- engine I/O
\* The log is the text the C library has written to the file, and the text it
\* still holds in the buffer of the stream. fprintf puts a line in the buffer,
\* and the library may write the buffer out on its own; fflush writes it out.
buffered(lg, entry) == [lg EXCEPT !.buf = Append(@, entry)]
fflush(lg) == [file |-> lg.file \o lg.buf, buf |-> <<>>]
fprintf(lg, entry) == {buffered(lg, entry), fflush(buffered(lg, entry))}

\* "%s -> %s\n" and "%s <- %s\n" with the name of the engine and the line.
LogLine(en, tag, l) == [name |-> en.name, tag |-> tag, line |-> l]

\* The first token of a line, "" for an empty line.
Kind(l) == IF l = <<>> THEN "" ELSE l[1]

\* History of an exchange with the Engine en: the line joins the lines exchanged
\* (kept for the engines that have a log sink) and becomes the last line of the
\* engine; a line written joins the commands sent to the engine.
Exchanged(x, en, dir, l) ==
    [x EXCEPT
        !.wire = IF en.log THEN Append(@, [name |-> en.name, dir |-> dir, line |-> l])
                 ELSE @,
        !.sent[en.id] = IF dir = "write" THEN Append(@, Kind(l)) ELSE @,
        !.last[en.id] = <<dir, l>>]

\* engine_readln, once str_getline has returned the line: the values of io after
\* it. The line is printed to the log, which is not flushed.
engine_readln(x, en, l) ==
    {[Exchanged(x, en, "read", l) EXCEPT !.log = lg] :
        lg \in IF en.log THEN fprintf(x.log, LogLine(en, "->", l)) ELSE {x.log}}

\* engine_writeln: the line is written to the engine, then printed to the log,
\* which is flushed.
engine_writeln(x, en, l) ==
    [Exchanged(x, en, "write", l) EXCEPT
        !.log = IF en.log THEN fflush(buffered(x.log, LogLine(en, "<-", l)))
                ELSE x.log]

\* The lines game_play writes.
SetChess960 == <<"setoption", "name", "UCI_Chess960", "value", "true">>
PositionLine(cmd) ==
    <<"position", "fen", cmd.fen>>
    \o (IF cmd.moves = <<>> THEN <<>> ELSE <<"moves">> \o cmd.moves)

\* Lines 111-116 for one engine: setoption if chess960, then ucinewgame.
\* (mut_new_game_lines: ucinewgame first.)
mut_new_game_lines(x, e) ==
    LET y == engine_writeln(x, engines[e], <<"ucinewgame">>)
    IN  IF go.chess960 THEN engine_writeln(y, engines[e], SetChess960) ELSE y
new_game_lines(x, e) ==
    engine_writeln(IF go.chess960 THEN engine_writeln(x, engines[e], SetChess960) ELSE x,
                   engines[e], <<"ucinewgame">>)

\* Lines 108-109: names[color] is the name of engines[color ^ pos[0].turn].
\* (mut_game_names: names[color] is the name of engines[color].)
xor(a, b) == (a + b) % 2
mut_game_names(gm) == <<engines[WHITE + 1].name, engines[BLACK + 1].name>>
game_names(gm) ==
    <<engines[xor(WHITE, Pos(gm, 0).turn) + 1].name,
      engines[xor(BLACK, Pos(gm, 0).turn) + 1].name>>

\* ------------------------------------------------------------- game_play
\* g->pos[ply] = p
StorePos(pos, ply, p) ==
    IF ply + 1 <= Len(pos) THEN [pos EXCEPT ![ply + 1] = p] ELSE Append(pos, p)

\* Lines 104-134: names, ucinewgame to both engines, the go commands, counters.
GameStart ==
    /\ pc = "start"
    /\ g' = [g EXCEPT !.names = game_names(g), !.ply = 0]
    /\ io' = new_game_lines(new_game_lines(io, 1), 2)
    /\ played' = NoMove
    /\ drawPlyCount' = 0
    /\ resignCount' = <<0, 0>>
    /\ pc' = "loop"
    /\ UNCHANGED <<go, posCmd, moves, drawRun, resignRun, callVars, searching, outq, envVars,
                   pending, timedOut, decoded>>

\* Lines 136-148: the head of an iteration: apply the move played, then see if
\* the game is over by chess rules.
next_pos(gm, mv) ==
    IF mv # NoMove THEN StorePos(gm.pos, gm.ply, pos_move(Pos(gm, gm.ply - 1), mv))
    ELSE gm.pos

LoopHead ==
    /\ pc = "loop"
    /\ LET g1 == [g EXCEPT !.pos = next_pos(g, played)]
           r == game_result(g1)
       IN  /\ g' = [g1 EXCEPT !.result = r]
           /\ moves' = gen_all_moves(Pos(g1, g1.ply))
           /\ pc' = IF r # "NONE" THEN "done" ELSE "position"
    /\ UNCHANGED <<go, played, drawPlyCount, resignCount, posCmd, drawRun, resignRun, callVars,
                   searching, outq, envVars, pending, timedOut, decoded, io>>

\* Lines 153-154: build the position command and write it.
WritePosition ==
    /\ pc = "position"
    /\ g.ply < PlyCap
    /\ posCmd' = uci_position_command(g, go.chess960)
    /\ io' = engine_writeln(io, engines[E], PositionLine(posCmd'))
    /\ pc' = "isready"
    /\ UNCHANGED <<g, go, played, drawPlyCount, resignCount, moves, drawRun, resignRun, callVars,
                   searching, outq, envVars, pending, timedOut, decoded>>

\* engine_sync: write isready ...
WriteIsready ==
    /\ pc = "isready"
    /\ outq' = [outq EXCEPT ![E] = Reply(E, "isready", <<>>)]
    /\ io' = engine_writeln(io, engines[E], <<"isready">>)
    /\ pc' = "sync"
    /\ UNCHANGED <<gameVars, callVars, searching, envVars, pending, timedOut, decoded>>

\* ... and read lines until readyok.
ReadSync ==
    /\ pc = "sync"
    /\ outq[E] # <<>>
    /\ outq' = [outq EXCEPT ![E] = Tail(outq[E])]
    /\ pending' = Answered(E, Head(outq[E]))
    /\ io' \in engine_readln(io, engines[E], Head(outq[E]))
    /\ pc' = IF Head(outq[E]) = <<"readyok">> THEN "go" ELSE "sync"
    /\ UNCHANGED <<gameVars, callVars, searching, envVars, timedOut, decoded>>

\* Line 158 and the call of line 161: write go and enter engine_bestmove, which
\* resets the score and takes the time budget of the request.
WriteGo ==
    /\ pc = "go"
    /\ searching' = [searching EXCEPT ![E] = Searching(E, "go")]
    /\ io' = engine_writeln(io, engines[E], <<"go">>)
    /\ pending' = [pending EXCEPT ![E] = @ + 1]
    /\ score' = 0
    /\ result' = FALSE
    /\ line' = <<>>
    /\ stops' = 0
    /\ drained' = 0
    /\ timeLeft' \in TimeBudgets(script)
    /\ best' \in PriorBest
    /\ pc' = IF bestmove_continues(timeLeft', FALSE) THEN "bm_read"
             ELSE IF timed_out(FALSE) THEN "bm_stop" ELSE "move"
    /\ UNCHANGED <<gameVars, outq, envVars, timedOut, decoded>>

\* engine_bestmove, one iteration of the loop: read a line, take the time, parse.
BestmoveRead ==
    /\ pc = "bm_read"
    /\ outq[E] # <<>>
    /\ LET l == Head(outq[E])
           res == is_bestmove(l)
       IN  /\ line' = l
           /\ outq' = [outq EXCEPT ![E] = Tail(outq[E])]
           /\ pending' = Answered(E, l)
           /\ io' \in engine_readln(io, engines[E], l)
           /\ timeLeft' \in ClockAfter(script, timeLeft)
           /\ score' = parse_score(l, score)
           /\ best' = IF res THEN l[2] ELSE best
           /\ result' = res
           /\ pc' = IF bestmove_continues(timeLeft', res) THEN "bm_read"
                    ELSE IF timed_out(res) THEN "bm_stop" ELSE "move"
    /\ UNCHANGED <<gameVars, stops, drained, searching, envVars, timedOut, decoded>>

\* engine_bestmove, time out: write stop ...
WriteStop ==
    /\ pc = "bm_stop"
    /\ \E bm \in {<<"bestmove", t>> : t \in LanTokens(script)} :
          outq' = [outq EXCEPT ![E] = Reply(E, "stop", bm)]
    /\ searching' = [searching EXCEPT ![E] = Searching(E, "stop")]
    /\ io' = engine_writeln(io, engines[E], <<"stop">>)
    /\ stops' = stops + 1
    /\ pc' = "bm_drain"
    /\ UNCHANGED <<gameVars, score, timeLeft, result, line, best, drained, envVars,
                   pending, timedOut, decoded>>

\* ... and read lines until one begins with "bestmove ".
BestmoveDrain ==
    /\ pc = "bm_drain"
    /\ outq[E] # <<>>
    /\ line' = Head(outq[E])
    /\ outq' = [outq EXCEPT ![E] = Tail(outq[E])]
    /\ pending' = Answered(E, Head(outq[E]))
    /\ io' \in engine_readln(io, engines[E], Head(outq[E]))
    /\ drained' = drained + 1
    /\ pc' = IF drain_done(Head(outq[E])) THEN "move" ELSE "bm_drain"
    /\ UNCHANGED <<gameVars, score, timeLeft, result, best, stops, searching, envVars,
                   timedOut, decoded>>

\* |score| <= drawScore, in the integers.
WithinDrawScore(sc) == -go.drawScore <= sc /\ sc <= go.drawScore

\* Lines 172 and 181: the conditions of the two adjudication rules.
draw_condition(a) == go.drawCount # 0 /\ a <= go.drawScore

\* (mut_resign_condition: -score >= resignScore, where -INT_MIN wraps.)
mut_resign_condition(sc) ==
    go.resignCount # 0 /\ (IF sc = INT_MIN THEN INT_MIN ELSE -sc) >= go.resignScore
resign_condition(sc) == go.resignCount # 0 /\ sc <= -go.resignScore

draw_limit == 2 * go.drawCount

\* The resign counter the ply updates: resignCount[turn].
\* (mut_resign_index: the counter of the other engine.)
mut_resign_index == 2 - Turn
resign_index == Turn + 1

\* The ply after a break: g->ply is left as it is.
\* (mut_ply_at_break: the break is taken after g->ply++.)
mut_ply_at_break == g.ply + 1
ply_at_break == g.ply

\* Lines 172-176: the draw rule, applied before the resign rule, ends the game.
\* (mut_draw_ends: the resign rule is applied first and ends the game instead.)
mut_draw_ends(a) ==
    /\ draw_condition(a) /\ drawPlyCount + 1 >= draw_limit
    /\ ~(resign_condition(score) /\ resignCount[resign_index] + 1 >= go.resignCount)
draw_ends(a) == draw_condition(a) /\ drawPlyCount + 1 >= draw_limit

\* Lines 163-188: parse the move and apply the rules in order: illegal move,
\* draw adjudication, resign; then g->ply++.
PlayMove ==
    /\ pc = "move"
    /\ LET mv == pos_lan_to_move(Pos(g, g.ply), best, go.chess960) IN
       /\ played' = mv
       /\ IF illegal_move(mv, moves) THEN
              /\ g' = [g EXCEPT !.result = "ILLEGAL_MOVE", !.ply = ply_at_break]
              /\ pc' = "done"
              /\ UNCHANGED <<drawPlyCount, resignCount, drawRun, resignRun>>
          ELSE
              /\ drawRun' = IF WithinDrawScore(score) THEN drawRun + 1 ELSE 0
              /\ resignRun' = [resignRun EXCEPT ![E] =
                    IF score <= -go.resignScore THEN @ + 1 ELSE 0]
              /\ \E a \in abs(score) :
                   IF draw_ends(a) THEN
                       /\ drawPlyCount' = drawPlyCount + 1
                       /\ g' = [g EXCEPT !.result = "DRAW_ADJUDICATION",
                                         !.ply = ply_at_break]
                       /\ pc' = "done"
                       /\ UNCHANGED resignCount
                   ELSE
                       /\ drawPlyCount' = IF draw_condition(a) THEN drawPlyCount + 1 ELSE 0
                       /\ IF resign_condition(score)
                             /\ resignCount[resign_index] + 1 >= go.resignCount THEN
                              /\ resignCount' = [resignCount EXCEPT ![resign_index] = @ + 1]
                              /\ g' = [g EXCEPT !.result = "RESIGN", !.ply = ply_at_break]
                              /\ pc' = "done"
                          ELSE
                              /\ resignCount' = [resignCount EXCEPT ![resign_index] =
                                    IF resign_condition(score) THEN @ + 1 ELSE 0]
                              /\ g' = [g EXCEPT !.ply = g.ply + 1]
                              /\ pc' = "loop"
    /\ timedOut' = (timedOut \/ ~result)
    \* the iteration's locals and the frame of engine_bestmove end here; the
    \* score is left as it is when the loop is left
    /\ score' = IF pc' = "done" THEN score ELSE 0
    /\ timeLeft' = 0
    /\ result' = FALSE
    /\ line' = <<>>
    /\ best' = ""
    /\ stops' = 0
    /\ drained' = 0
    /\ UNCHANGED <<go, posCmd, moves, searching, outq, envVars, pending, decoded, io>>

\* game_decode_result on the finished game.
DecodeResult ==
    /\ pc = "done"
    /\ decoded' = game_decode_result(g)
    /\ pc' = "decoded"
    /\ UNCHANGED <<gameVars, callVars, searching, outq, envVars, pending, timedOut, io>>

\* ------------------------------------------------------------- the engines
\* A searching engine prints an info line.
EngineInfo(e) ==
    /\ script \in {"free", "stall"}
    /\ searching[e]
    /\ Len(outq[e]) < MaxQueue
    /\ \E l \in InfoLines : outq' = [outq EXCEPT ![e] = Append(outq[e], l)]
    /\ UNCHANGED <<gameVars, callVars, pc, searching, envVars, pending, timedOut, decoded, io>>

\* A searching engine ends its search and prints its best move.
EngineBestmove(e) ==
    /\ searching[e]
    /\ Len(outq[e]) < MaxQueue
    /\ \E l \in BestmoveLines(script) : outq' = [outq EXCEPT ![e] = Append(outq[e], l)]
    /\ searching' = [searching EXCEPT ![e] = FALSE]
    /\ UNCHANGED <<gameVars, callVars, pc, envVars, pending, timedOut, decoded, io>>

Next ==
    \/ GameStart
    \/ LoopHead
    \/ WritePosition
    \/ WriteIsready
    \/ ReadSync
    \/ WriteGo
    \/ BestmoveRead
    \/ WriteStop
    \/ BestmoveDrain
    \/ PlayMove
    \/ DecodeResult
    \/ \E e \in 1..2 : EngineInfo(e)
    \/ \E e \in 1..2 : EngineBestmove(e)

Spec == Init /\ [][Next]_vars

\* ------------------------------------------------------------- stalling engines
\* Games against engines that print info lines for as long as they search, end a
\* search on their own only with a bestmove line without a move, and answer stop
\* with a bestmove line; the clock advances at every line read.
InitLive ==
    /\ script = "stall"
    /\ go \in GameOptions
    /\ g \in {game_new(Fen(t, 0, FALSE, "")) : t \in {WHITE, BLACK}}
    /\ pc = "start"
    /\ played = NoMove
    /\ drawPlyCount = 0
    /\ resignCount = <<0, 0>>
    /\ posCmd = [fen |-> pos_get(Pos(g, 0)), moves |-> <<>>]
    /\ moves = {}
    /\ score = 0
    /\ timeLeft = 0
    /\ result = FALSE
    /\ line = <<>>
    /\ best = ""
    /\ searching = <<FALSE, FALSE>>
    /\ outq = << <<>>, <<>> >>
    /\ drawRun = 0
    /\ resignRun = <<0, 0>>
    /\ pending = <<0, 0>>
    /\ stops = 0
    /\ drained = 0
    /\ timedOut = FALSE
    /\ decoded = [result |-> "", reason |-> "", asserted |-> FALSE]
    /\ engines = Engines(FALSE)
    /\ args = NoArgs
    /\ hs = NoHandshake
    /\ io = NoIO

\* The steps of the driver: it runs whenever it is not blocked in a read.
Driver ==
    \/ GameStart
    \/ LoopHead
    \/ WritePosition
    \/ WriteIsready
    \/ ReadSync
    \/ WriteGo
    \/ BestmoveRead
    \/ WriteStop
    \/ BestmoveDrain
    \/ PlayMove
    \/ DecodeResult

\* The driver keeps running, and a searching engine keeps printing.
SpecLive ==
    /\ InitLive
    /\ [][Next]_vars
    /\ WF_vars(Driver)
    /\ \A e \in 1..2 : WF_vars(EngineInfo(e))

\* ------------------------------------------------------------- engine_new
\* Names are kept as the sequence of their tokens, as lines are.
\* The arguments of engine_new: the command, the display name (empty for none),
\* the log sink (set or not), the options as <<name, value>> pairs.
NewArgs ==
    [cmd : {<<"./engine">>}, name : {<<>>, <<"given">>}, log : BOOLEAN,
     uciOptions : {<<>>, << <<"Hash", "16">>, <<"Threads", "8">> >>}]

\* What an engine may print before uciok. No engine of the model prints id name
\* with nothing after it.
HandshakeLines ==
    {<<"id", "name", "Foo">>, <<"id", "name", "Bar", "2">>, <<"id", "author", "Foo">>,
     <<"option", "name", "Hash">>}

\* Lines 79-80: the line is "id name" followed by the name.
id_name(l) == Len(l) >= 3 /\ l[1] = "id" /\ l[2] = "name"

\* Lines 79-81: e.name after a line of the handshake has been read.
name_after(name, current, l) ==
    IF name = <<>> /\ id_name(l) THEN SubSeq(l, 3, Len(l)) ELSE current

\* Lines 85-94: a setoption line for each option, in order.
RECURSIVE set_options(_, _, _)
set_options(x, en, options) ==
    IF options = <<>> THEN x
    ELSE set_options(
            engine_writeln(x, en, <<"setoption", "name", Head(options)[1],
                                    "value", Head(options)[2]>>),
            en, Tail(options))

InitNew ==
    /\ script = "handshake"
    /\ args \in NewArgs
    /\ engines = << [id |-> 1, name |-> <<>>, log |-> FALSE],
                    [id |-> 2, name |-> <<>>, log |-> FALSE] >>
    /\ hs = NoHandshake
    /\ io = NoIO
    /\ go \in QuietOptions /\ go.chess960 = FALSE
    /\ g = game_new(Fen(WHITE, 0, FALSE, ""))
    /\ pc = "new"
    /\ played = NoMove
    /\ drawPlyCount = 0
    /\ resignCount = <<0, 0>>
    /\ posCmd = [fen |-> pos_get(Pos(g, 0)), moves |-> <<>>]
    /\ moves = {}
    /\ score = 0
    /\ timeLeft = 0
    /\ result = FALSE
    /\ line = <<>>
    /\ best = ""
    /\ searching = <<FALSE, FALSE>>
    /\ outq = << <<>>, <<>> >>
    /\ drawRun = 0
    /\ resignRun = <<0, 0>>
    /\ pending = <<0, 0>>
    /\ stops = 0
    /\ drained = 0
    /\ timedOut = FALSE
    /\ decoded = [result |-> "", reason |-> "", asserted |-> FALSE]

\* Lines 63-71: the log, the default name, the child process, and uci written.
EngineNewStart ==
    /\ pc = "new"
    /\ LET e == [id |-> 1,
                 name |-> IF args.name # <<>> THEN args.name ELSE args.cmd,
                 log |-> args.log]
       IN  /\ engines' = [engines EXCEPT ![1] = e]
           /\ io' = engine_writeln(io, e, <<"uci">>)
    /\ pc' = "new_read"
    /\ UNCHANGED <<gameVars, callVars, searching, outq, script, args, hs, pending,
                   timedOut, decoded>>

\* Lines 74-82, one iteration: read a line, take the name from an id name line if
\* no name was given, and leave the loop at uciok.
EngineNewRead ==
    /\ pc = "new_read"
    /\ outq[1] # <<>>
    /\ LET l == Head(outq[1]) IN
       /\ line' = l
       /\ outq' = [outq EXCEPT ![1] = Tail(outq[1])]
       /\ io' \in engine_readln(io, engines[1], l)
       /\ engines' = [engines EXCEPT ![1].name = name_after(args.name, @, l)]
       /\ hs' = [hs EXCEPT !.ids = IF id_name(l) THEN Append(@, SubSeq(l, 3, Len(l)))
                                   ELSE @]
       /\ pc' = IF l = <<"uciok">> THEN "new_options" ELSE "new_read"
    /\ UNCHANGED <<gameVars, score, timeLeft, result, best, stops, drained, searching,
                   script, args, pending, timedOut, decoded>>

\* Lines 85-97: the options, and the Engine is returned.
EngineNewOptions ==
    /\ pc = "new_options"
    /\ io' = set_options(io, engines[1], args.uciOptions)
    /\ pc' = "new_done"
    /\ UNCHANGED <<gameVars, callVars, searching, outq, envVars, pending, timedOut,
                   decoded>>

\* The engine answers uci: some lines, then uciok.
HandshakePrint ==
    /\ pc = "new_read"
    /\ ~hs.ok
    /\ Len(outq[1]) < MaxQueue
    /\ \E l \in (IF hs.printed < MaxHandshake THEN HandshakeLines ELSE {})
                  \cup {<<"uciok">>} :
          /\ outq' = [outq EXCEPT ![1] = Append(outq[1], l)]
          /\ hs' = [hs EXCEPT !.printed = @ + 1, !.ok = (l = <<"uciok">>)]
    /\ UNCHANGED <<gameVars, callVars, pc, searching, script, engines, args, pending,
                   timedOut, decoded, io>>

NextNew ==
    \/ EngineNewStart
    \/ EngineNewRead
    \/ EngineNewOptions
    \/ HandshakePrint

SpecNew == InitNew /\ [][NextNew]_vars

\* ------------------------------------------------------------- decoding alone
\* The result tags of the enumeration of game.h, STATE_SEPARATOR left out.
ResultTags ==
    {"NONE", "CHECKMATE", "TIME_LOSS", "ILLEGAL_MOVE", "RESIGN", "STALEMATE",
     "THREEFOLD", "FIFTY_MOVES", "INSUFFICIENT_MATERIAL", "DRAW_ADJUDICATION"}

\* game_decode_result as a function of the game: any tag, any final position.
InitDecode ==
    /\ script = "quiet"
    /\ go \in QuietOptions
    /\ g \in {[game_new(fen) EXCEPT !.result = tag] :
                fen \in Openings \cup QuietOpenings, tag \in ResultTags}
    /\ pc = "done"
    /\ played = NoMove
    /\ drawPlyCount = 0
    /\ resignCount = <<0, 0>>
    /\ posCmd = [fen |-> pos_get(Pos(g, 0)), moves |-> <<>>]
    /\ moves = {}
    /\ score = 0
    /\ timeLeft = 0
    /\ result = FALSE
    /\ line = <<>>
    /\ best = ""
    /\ searching = <<FALSE, FALSE>>
    /\ outq = << <<>>, <<>> >>
    /\ drawRun = 0
    /\ resignRun = <<0, 0>>
    /\ pending = <<0, 0>>
    /\ stops = 0
    /\ drained = 0
    /\ timedOut = FALSE
    /\ decoded = [result |-> "", reason |-> "", asserted |-> FALSE]
    /\ engines = Engines(FALSE)
    /\ args = NoArgs
    /\ hs = NoHandshake
    /\ io = NoIO

NextDecode == DecodeResult

SpecDecode == InitDecode /\ [][NextDecode]_vars

\* ------------------------------------------------------------- claims
Finished == pc \in {"done", "decoded"}

\* The plies at which game_play is past the head of the iteration, so that
\* g->pos[g->ply] is the current position.
AtPly == pc \notin {"start", "loop"}

\* C1: for each engine, the driver never writes a go line before it has read a
\* bestmove line answering the previous go to that engine: at most one go is
\* unanswered, none is when a go is about to be written, and none is when
\* engine_bestmove has returned, by either path.
C1_GoAfterBestmove ==
    /\ \A e \in 1..2 : pending[e] <= 1
    /\ pc = "go" => pending[E] = 0
    /\ pc = "move" => pending[E] = 0

\* The engine on move is searching on its second go of the game.
C1_Witness == pc = "bm_read" /\ g.ply >= 2 /\ pending[E] = 1 /\ searching[E]

\* strncmp with "bestmove " on a line of tokens, stated on its own.
BeginsWithBestmove(l) == l # <<>> /\ Head(l) = "bestmove" /\ Tail(l) # <<>>

\* C2: when engine_bestmove returns timeout it has written exactly one stop, the
\* last line it read begins with "bestmove ", and no line read by the drain
\* changes the score or the move output.
C2_TimeoutDrains ==
    /\ [](pc = "move" /\ ~result =>
            stops = 1 /\ drained >= 1 /\ BeginsWithBestmove(line))
    /\ [][pc = "bm_drain" => score' = score /\ best' = best /\ stops' = stops]_vars

\* A timeout whose drain discarded a line before the bestmove line.
C2_Witness == pc = "move" /\ ~result /\ drained >= 2 /\ score # 0

\* C3: a request that times out ends the game at that ply with TIME_LOSS.
C3_TimeLoss == timedOut => Finished /\ g.result = "TIME_LOSS"

\* The chess-rule terminations, each stated on the current position alone.
NoLegalMove(gm) == gen_all_moves(Pos(gm, gm.ply)) = {}
FiftyMoves(gm) == Pos(gm, gm.ply).rule50 >= 100
Insufficient(gm) == pos_insufficient_material(Pos(gm, gm.ply))
ThirdRepetition(gm) ==
    Cardinality({d \in 1..gm.ply : /\ d % 2 = 0
                                   /\ d <= Pos(gm, gm.ply).rule50
                                   /\ Pos(gm, gm.ply - d).key = Pos(gm, gm.ply).key}) >= 2

RuleTags == {"NONE", "CHECKMATE", "STALEMATE", "FIFTY_MOVES", "INSUFFICIENT_MATERIAL",
             "THREEFOLD"}

LoserSideToMove(gm) == IF Pos(gm, gm.ply).turn = WHITE THEN "0-1" ELSE "1-0"
WireResult(gm) ==
    CASE gm.result = "NONE" -> "*"
      [] gm.result \in {"CHECKMATE", "ILLEGAL_MOVE", "TIME_LOSS", "RESIGN"} ->
            LoserSideToMove(gm)
      [] OTHER -> "1/2-1/2"

\* C5: game_decode_result maps every result tag to the wire result of the table
\* and no tag reaches the failing assertion.
C5_DecodeTable ==
    pc = "decoded" => ~decoded.asserted /\ decoded.result = WireResult(g)

\* C6: with drawCount > 0 the draw counter is the number of latest consecutive
\* plies with |score| <= drawScore, and the game ends with DRAW_ADJUDICATION
\* exactly when that number reaches 2 x drawCount; never with drawCount = 0.
C6_DrawCount ==
    /\ go.drawCount > 0 => drawPlyCount = drawRun
    /\ g.result = "DRAW_ADJUDICATION" =>
            go.drawCount > 0 /\ drawRun = 2 * go.drawCount
    /\ go.drawCount > 0 /\ drawRun >= 2 * go.drawCount =>
            g.result = "DRAW_ADJUDICATION"

\* C7: with resignCount > 0 each engine's resign counter is the number of its
\* latest consecutive own plies with score <= -resignScore; the game ends with
\* RESIGN exactly when a counter reaches resignCount, and it is the counter of
\* the side to move in the final position. (The ply that ends the game by draw
\* adjudication does not reach the resign rule, so the counters are compared in
\* every other state.)
C7_ResignCount ==
    /\ go.resignCount > 0 /\ g.result # "DRAW_ADJUDICATION" => resignCount = resignRun
    /\ go.resignCount = 0 => resignCount = <<0, 0>> /\ g.result # "RESIGN"
    /\ go.resignCount > 0 =>
            (g.result = "RESIGN" <=> \E e \in 1..2 : resignCount[e] >= go.resignCount)
    /\ g.result = "RESIGN" =>
            /\ resignCount[E] = go.resignCount
            /\ resignCount[3 - E] < go.resignCount
            /\ Pos(g, g.ply).turn = (Pos(g, 0).turn + g.ply) % 2
    /\ pc = "decoded" /\ g.result = "RESIGN" =>
            /\ decoded.result = LoserSideToMove(g)
            /\ decoded.reason = IF Pos(g, g.ply).turn = WHITE THEN "white resigns"
                                 ELSE "black resigns"

\* first resigns at its second bad ply while second had a bad ply of its own.
C7_Witness ==
    g.result = "RESIGN" /\ g.ply = 2 /\ resignCount = <<2, 1>> /\ pc = "decoded"

\* C8: a move string that parses to no move or to a move that is not legal ends
\* the game with ILLEGAL_MOVE at that ply: nothing is applied, the history is not
\* extended, no adjudication is evaluated, and the side to move is the loser.
C8_IllegalMove ==
    /\ [][pc = "move"
            /\ pos_lan_to_move(Pos(g, g.ply), best, go.chess960)
                  \notin gen_all_moves(Pos(g, g.ply))
          => /\ g'.result = "ILLEGAL_MOVE"
             /\ g'.pos = g.pos
             /\ g'.ply = g.ply
             /\ drawPlyCount' = drawPlyCount
             /\ resignCount' = resignCount
             /\ pc' = "done"]_vars
    /\ [](g.result = "ILLEGAL_MOVE" =>
            /\ Finished
            /\ played \notin gen_all_moves(Pos(g, g.ply))
            /\ Len(g.pos) = g.ply + 1
            /\ (pc = "decoded" =>
                    decoded.result = LoserSideToMove(g) /\ decoded.reason = "illegal move"))

\* The engine answered with a move of the notation that is not legal.
C8_Witness ==
    pc = "decoded" /\ g.result = "ILLEGAL_MOVE" /\ played # NoMove /\ g.ply > 0
    /\ ~timedOut

\* C9: when game_play returns, result is not NONE and exactly the positions
\* 0..ply are stored; ply increases by one per iteration while result is NONE,
\* and once a result is set neither the ply nor the positions change.
C9_History ==
    /\ [](Finished => g.result # "NONE" /\ Len(g.pos) = g.ply + 1)
    /\ [](g.result # "NONE" => Finished)
    /\ [][/\ g'.ply \in {g.ply, g.ply + 1}
          /\ (g'.ply = g.ply + 1 => g.result = "NONE" /\ g'.result = "NONE")
          /\ (g.result # "NONE" => g' = g)]_vars

\* A game ended by adjudication on a legal move that is not applied.
C9_Witness ==
    Finished /\ g.result = "DRAW_ADJUDICATION" /\ g.ply >= 1
    /\ played \in gen_all_moves(Pos(g, g.ply))

\* Replaying a position command: the FEN, then each move of the list.
RECURSIVE Replay(_, _, _)
Replay(p, ms, chess960) ==
    IF ms = <<>> THEN p
    ELSE Replay(pos_move(p, pos_lan_to_move(p, Head(ms), chess960)), Tail(ms), chess960)

\* The ply where rule50 was last reset, or the start of the game.
ResetPly == IF Pos(g, g.ply).rule50 >= g.ply THEN 0 ELSE g.ply - Pos(g, g.ply).rule50

\* C10: the position command starts from the FEN of positions[p0], with
\* p0 = max(ply - rule50, 0), lists exactly the moves from p0 to ply in order,
\* and replaying it yields positions[ply].
C10_PositionCommand ==
    pc \in {"isready", "sync", "go", "bm_read", "bm_stop", "bm_drain", "move"} =>
        /\ posCmd.fen = pos_get(Pos(g, ResetPly))
        /\ Len(posCmd.moves) = g.ply - ResetPly
        /\ \A i \in 1..Len(posCmd.moves) :
              pos_lan_to_move(Pos(g, ResetPly + i - 1), posCmd.moves[i], go.chess960)
                = Pos(g, ResetPly + i).lastMove
        /\ LET r == Replay(pos_set(posCmd.fen), posCmd.moves, go.chess960) IN
              /\ pos_get(r) = pos_get(Pos(g, g.ply))
              /\ r.key = Pos(g, g.ply).key
              /\ r.checkers = Pos(g, g.ply).checkers

\* A command pruned to a start after the opening, with moves to replay.
C10_Witness ==
    pc = "isready" /\ ResetPly > 0 /\ Len(posCmd.moves) >= 2 /\ go.chess960

\* The move returned by the request is a legal move of the current position.
LegalReply == pos_lan_to_move(Pos(g, g.ply), best, go.chess960) \in gen_all_moves(Pos(g, g.ply))

\* C11: first is asked for the move at every even ply and second at every odd
\* ply, and whichever side moves first in the opening, the engine a position or
\* go line is written to at a ply is the engine whose name is stored in names
\* under the side to move of the position of that ply.
C11_Names ==
    [][\A e \in 1..2 :
          pc \in {"position", "go"} /\ io'.sent[e] # io.sent[e] =>
              /\ (e = 1 <=> g.ply % 2 = 0)
              /\ (e = 2 <=> g.ply % 2 = 1)
              /\ g.names[Pos(g, g.ply).turn + 1] = engines[e].name]_vars

\* Black moves first in the opening and second, playing White, is searching.
C11_Witness ==
    /\ pc = "bm_read" /\ g.ply = 1 /\ Pos(g, 0).turn = BLACK
    /\ io.last[2] = <<"write", <<"go">>>>
    /\ g.names[WHITE + 1] = engines[2].name /\ g.names[BLACK + 1] = engines[1].name

\* The log as text: what is in the file followed by what is in the buffer.
LogText == io.log.file \o io.log.buf

\* The log line of an exchange: the name, -> for a read and <- for a write, the line.
Tagged(x) ==
    [name |-> x.name, tag |-> IF x.dir = "read" THEN "->" ELSE "<-", line |-> x.line]

\* C12: with a log sink, every line read from or written to an engine is in the
\* log as one line tagged with the name of the engine and the direction, in the
\* order of the exchanges, and the log is flushed after each exchange, reads
\* included: nothing stays in the buffer.
C12_LogFidelity ==
    /\ Len(LogText) = Len(io.wire)
    /\ \A i \in 1..Len(io.wire) : LogText[i] = Tagged(io.wire[i])
    /\ io.log.buf = <<>>

\* C13: engine_bestmove returns success only when the bestmove line with a move
\* arrives while the time left is above zero, and timeout when the time left has
\* fallen to zero or below before it arrives.
C13_SuccessInTime == pc = "move" => (result <=> timeLeft > 0)

\* A score that only a mate line sets.
MateScore(sc) == sc \in {INT_MIN, INT_MAX}

C15_MateResetsDraw ==
    [][pc = "move" /\ MateScore(score) /\ LegalReply
          /\ go.drawScore >= 0 /\ go.drawScore < INT_MAX =>
              drawPlyCount' = 0 /\ g'.result # "DRAW_ADJUDICATION"]_vars

\* The draw rule and the resign rule as the options state them, on the score of
\* the ply and the counters before it.
DrawReached ==
    go.drawCount > 0 /\ WithinDrawScore(score) /\ drawPlyCount + 1 >= 2 * go.drawCount
ResignReached ==
    go.resignCount > 0 /\ score <= -go.resignScore
    /\ resignCount[(g.ply % 2) + 1] + 1 >= go.resignCount

\* C20: within a ply the checks are applied in the order illegal move, draw
\* adjudication, resign: an illegal move ends the game whatever the score is;
\* when the draw counter reaches 2 x drawCount on the ply where the score would
\* also bring the resign counter of the side to move to resignCount, the result
\* is DRAW_ADJUDICATION and the resign counter is not touched; and the legal move
\* of a ply that ends by draw adjudication or resign is not applied.
C20_CheckOrder ==
    /\ [][pc = "move" =>
            /\ (~LegalReply =>
                    /\ g'.result = "ILLEGAL_MOVE"
                    /\ drawPlyCount' = drawPlyCount /\ resignCount' = resignCount)
            /\ (LegalReply /\ DrawReached /\ ResignReached =>
                    g'.result = "DRAW_ADJUDICATION" /\ resignCount' = resignCount)
            /\ (g'.result \in {"DRAW_ADJUDICATION", "RESIGN"} =>
                    LegalReply /\ g'.pos = g.pos /\ g'.ply = g.ply)]_vars
    /\ [](g.result \in {"DRAW_ADJUDICATION", "RESIGN"} =>
            /\ Finished
            /\ played \in gen_all_moves(Pos(g, g.ply))
            /\ Len(g.pos) = g.ply + 1)

\* The ply ended by draw adjudication with a score that had brought the resign
\* counter of the side to move to resignCount.
C20_Witness ==
    /\ g.result = "DRAW_ADJUDICATION" /\ go.resignCount > 0
    /\ WithinDrawScore(score) /\ score <= -go.resignScore
    /\ resignCount[(g.ply % 2) + 1] + 1 >= go.resignCount

\* The earlier plies that count as repetitions of the current position: same side
\* to move (an even distance), at a distance within rule50 and within the
\* history, and the same key.
Repeats(gm) ==
    {q \in 0..(gm.ply - 1) : /\ (gm.ply - q) % 2 = 0
                             /\ gm.ply - q <= Pos(gm, gm.ply).rule50
                             /\ Pos(gm, q).key = Pos(gm, gm.ply).key}

\* C16: when no earlier rule fires, game_result returns THREEFOLD if and only if
\* the key of the current position occurs at least twice among the earlier
\* positions with the same side to move at a distance <= rule50 and <= ply.
C16_Threefold ==
    AtPly /\ g.result \in RuleTags
          /\ ~NoLegalMove(g) /\ ~FiftyMoves(g) /\ ~Insufficient(g) =>
        /\ g.result \in {"THREEFOLD", "NONE"}
        /\ (g.result = "THREEFOLD" <=> Cardinality(Repeats(g)) >= 2)

\* A game drawn by repetition at ply 8: the position of plies 0 and 4 is back.
C16_Witness ==
    AtPly /\ g.result = "THREEFOLD" /\ g.ply = 8 /\ Repeats(g) = {0, 4}

\* The commands each engine has received when the first position is written.
NewGamePrefix == IF go.chess960 THEN <<"setoption", "ucinewgame">> ELSE <<"ucinewgame">>

Last(sq) == IF sq = <<>> THEN "" ELSE sq[Len(sq)]

\* The read that ends the reading of an answer: readyok after isready, a line
\* that begins with "bestmove " after go (or after the stop of a time out).
AnswerRead(e) ==
    /\ io.last[e][1] = "read"
    /\ \/ Last(io.sent[e]) = "isready" /\ io.last[e][2] = <<"readyok">>
       \/ Last(io.sent[e]) \in {"go", "stop"} /\ BeginsWithBestmove(io.last[e][2])

\* The order of the lines exchanged with engine e, as a condition on a step:
\* what may be written or read after what.
InOrder(e) ==
    LET wrote == io'.sent[e] # io.sent[e]
        k == Last(io'.sent[e])
    IN  IF pc = "start" THEN io.sent[e] = <<>> /\ io'.sent[e] = NewGamePrefix
        ELSE IF wrote THEN
            /\ e = (g.ply % 2) + 1
            /\ io'.sent[e] = Append(io.sent[e], k)
            /\ k \in {"position", "isready", "go", "stop"}
            /\ k = "position" =>
                  \/ io.sent[e] = NewGamePrefix
                  \/ Last(io.sent[e]) \in {"go", "stop"} /\ AnswerRead(e)
            /\ k = "isready" =>
                  io.last[e][1] = "write" /\ Kind(io.last[e][2]) = "position"
            /\ k = "go" => Last(io.sent[e]) = "isready" /\ AnswerRead(e)
            \* the stop of a request that timed out belongs to the reading of
            \* the answer to go
            /\ k = "stop" => Last(io.sent[e]) = "go" /\ ~AnswerRead(e)
        ELSE IF io'.last[e] # io.last[e] THEN
            /\ e = (g.ply % 2) + 1
            /\ io'.last[e][1] = "read"
            /\ Last(io.sent[e]) \in {"isready", "go", "stop"}
            /\ ~AnswerRead(e)
        ELSE TRUE

\* The current position is terminal by chess rules.
TerminalByRules ==
    pc # "loop" /\ (NoLegalMove(g) \/ FiftyMoves(g) \/ Insufficient(g) \/ ThirdRepetition(g))

\* C18 as claimed: each engine receives ucinewgame (after setoption when chess960
\* is set) before any position; at each ply the lines are exchanged with the
\* engine on move in the order position, isready, lines up to readyok, go, lines
\* up to bestmove; no go is written without readyok read since the position; and
\* nothing is sent once the current position is terminal by chess rules.
C18_CommandOrder ==
    /\ [][\A e \in 1..2 : InOrder(e)]_vars
    /\ [][TerminalByRules => io'.sent = io.sent]_vars

\* C18 as amended: the same, where nothing is sent at a ply once game_result has
\* examined its position and found it terminal; the ucinewgame (and setoption)
\* lines of the start of the game are sent before the opening is examined, so
\* also when the opening is terminal.
C18_CommandOrderExamined ==
    /\ [][\A e \in 1..2 : InOrder(e)]_vars
    /\ [][pc # "start" /\ (pc = "loop" \/ TerminalByRules) => io'.sent = io.sent]_vars
    /\ [](pc # "start" =>
            \A e \in 1..2 : SubSeq(io.sent[e], 1, Len(NewGamePrefix)) = NewGamePrefix)

\* A game of three plies ended by checkmate: first was asked twice, second once.
C18_Witness ==
    /\ Finished /\ g.result = "CHECKMATE" /\ g.ply = 3
    /\ io.sent[1] = <<"ucinewgame", "position", "isready", "go", "position", "isready", "go">>
    /\ io.sent[2] = <<"ucinewgame", "position", "isready", "go">>

\* C17: with no display name given, the name of the engine after construction is
\* the remainder of the first id name line received before uciok, whatever id
\* name lines follow it; with a name given, the name is the name given.
C17_FirstIdName ==
    pc \in {"new_options", "new_done"} =>
        /\ (args.name = <<>> /\ hs.ids # <<>> => engines[1].name = hs.ids[1])
        /\ (args.name # <<>> => engines[1].name = args.name)

====
